---------------------------- MODULE Spec2Model ----------------------------
(* Othello against a minimax bot: the board rules (othelo.py), the search *)
(* (bot.py) and the game loop with its iterative deepening (main.py).     *)
(*                                                                        *)
(* Rows and columns are 0..7 as in the source; the board is a tuple of    *)
(* rows, so the source's board[r][c] is b[r + 1][c + 1] here.  Scores are *)
(* kept doubled (the source's 2.5 weight becomes 5), which leaves every   *)
(* comparison of two scores unchanged.                                    *)
EXTENDS Integers, Sequences, FiniteSets, TLC

N == 8

Inf == 100000
NegInf == 0 - Inf

None == <<>>

\* Model bounds.
MaxDiscs == 8          \* the game is followed until this many discs are on the board
MaxDepth == 2          \* deepest iteration of the iterative-deepening loop that is followed
ProbeCellCount == 5    \* cells of ProbeCells the board probes fill in every way
SearchCellCount == 3   \* cells of ProbeCells the search probes fill in every way
OpeningPlies == 1      \* moves from the initial board to the deepest opening that is probed
SearchDepth == 3       \* deepest search that is probed
ScriptDiscs == 12      \* the scripted game is followed until this many discs are on the board

VARIABLES
    board,           \* Othello.board
    current_player,  \* Othello.current_player
    pc,              \* position in play_othello / in the probe
    depth,           \* play_othello: the for loop's depth
    best_move,       \* play_othello: best_move
    setOrder,        \* the iteration order list(set(...)) has in this run
    pre,             \* probe: the board before the probed call
    mv,              \* probe: the move handed to apply_move or make_move
    pl,              \* probe: the player handed to apply_move or make_move
    flip_positions,  \* probe: the list apply_move returned
    result           \* the latest call or input, the turn it was made in, what it returned

vars == <<board, current_player, pc, depth, best_move, setOrder, pre, mv, pl, flip_positions, result>>

Rows == 0 .. (N - 1)
Pos == Rows \X Rows
Players == {1, -1}

Max(a, b) == IF a >= b THEN a ELSE b
Min(a, b) == IF a <= b THEN a ELSE b

Range(s) == {s[i] : i \in 1 .. Len(s)}

InBoard(r, c) == r >= 0 /\ r < N /\ c >= 0 /\ c < N

Cell(b, r, c) == b[r + 1][c + 1]

SetCell(b, r, c, v) == [b EXCEPT ![r + 1][c + 1] = v]

EmptyBoard == [r \in 1 .. N |-> [c \in 1 .. N |-> 0]]

InitBoard ==
    SetCell(SetCell(SetCell(SetCell(EmptyBoard, 3, 3, 1), 4, 4, 1), 3, 4, -1), 4, 3, -1)

directions ==
    << <<-1, -1>>, <<-1, 0>>, <<-1, 1>>, <<0, -1>>, <<0, 1>>, <<1, -1>>, <<1, 0>>, <<1, 1>> >>

-----------------------------------------------------------------------------
(* Othello.valid_moves *)

\* The inner while loop of valid_moves from (nr, nc): TRUE when it appends the cell.
RECURSIVE ScanHits(_, _, _, _, _, _)
ScanHits(b, player, nr, nc, dr, dc) ==
    IF ~InBoard(nr, nc) THEN FALSE
    ELSE IF Cell(b, nr, nc) = 0 THEN FALSE
    ELSE IF Cell(b, nr, nc) = player THEN TRUE
    ELSE ScanHits(b, player, nr + dr, nc + dc, dr, dc)

\* DirHits without the test that the neighbour holds an opposing disc.
DirHits_any_neighbour(b, player, r, c, d) ==
    LET nr == r + d[1]
        nc == c + d[2]
    IN  /\ InBoard(nr, nc)
        /\ ScanHits(b, player, nr, nc, d[1], d[2])

\* One direction of valid_moves at the empty cell (r, c).
DirHits(b, player, r, c, d) ==
    LET nr == r + d[1]
        nc == c + d[2]
    IN  /\ InBoard(nr, nc)
        /\ Cell(b, nr, nc) = 0 - player
        /\ ScanHits(b, player, nr, nc, d[1], d[2])

\* The directions whose scan appends the empty cell (r, c) to moves.
HitDirs(b, player, r, c) ==
    {i \in 1 .. Len(directions) : DirHits(b, player, r, c, directions[i])}

\* The cells valid_moves appends at least once.
HitCells(b, player) ==
    {m \in Pos : Cell(b, m[1], m[2]) = 0
                 /\ \E i \in 1 .. Len(directions) : DirHits(b, player, m[1], m[2], directions[i])}

\* list(set(moves)) lists the set in an order the interpreter fixes, the same for
\* every call of one run; a run follows one of these two orders throughout.
SetOrders == {"ascending", "descending"}

OrderKey(ord, m) ==
    IF ord = "ascending" THEN m[1] * N + m[2] ELSE 0 - (m[1] * N + m[2])

RECURSIVE ListOfSet(_, _)
ListOfSet(S, ord) ==
    IF S = {} THEN <<>>
    ELSE LET first == CHOOSE m \in S : \A o \in S : OrderKey(ord, m) <= OrderKey(ord, o)
         IN  <<first>> \o ListOfSet(S \ {first}, ord)

\* The list moves before de-duplication: the cells are visited row by row, and a
\* cell is appended once for every direction that hits.
RECURSIVE Copies(_, _, _, _)
Copies(b, player, cells, i) ==
    IF i > Len(cells) THEN <<>>
    ELSE [k \in 1 .. Cardinality(HitDirs(b, player, cells[i][1], cells[i][2])) |-> cells[i]]
         \o Copies(b, player, cells, i + 1)

MovesList(b, player) == Copies(b, player, ListOfSet(HitCells(b, player), "ascending"), 1)

\* valid_moves returning moves as collected, without list(set(...)).
valid_moves_with_duplicates(b, player, ord) == MovesList(b, player)

\* return list(set(moves))
valid_moves(b, player, ord) == ListOfSet(Range(MovesList(b, player)), ord)

has_valid_move(b, player, ord) == Len(valid_moves(b, player, ord)) > 0


switch_player(cp) == cp * (0 - 1)

-----------------------------------------------------------------------------
(* Othello.make_move *)

\* The inner while loop of make_move: the cells it flips in one direction.
RECURSIVE MakeScan(_, _, _, _, _, _, _)
MakeScan(b, player, nr, nc, dr, dc, flips) ==
    IF ~InBoard(nr, nc) THEN <<>>
    ELSE IF Cell(b, nr, nc) = 0 THEN <<>>
    ELSE IF Cell(b, nr, nc) = player THEN flips
    ELSE MakeScan(b, player, nr + dr, nc + dc, dr, dc, Append(flips, <<nr, nc>>))

RECURSIVE FlipAll(_, _, _, _)
FlipAll(b, flips, i, player) ==
    IF i > Len(flips) THEN b
    ELSE FlipAll(SetCell(b, flips[i][1], flips[i][2], player), flips, i + 1, player)

RECURSIVE MakeDirs(_, _, _, _, _)
MakeDirs(b, row, col, player, i) ==
    IF i > Len(directions) THEN b
    ELSE LET nr == row + directions[i][1]
             nc == col + directions[i][2]
             flips == IF InBoard(nr, nc) /\ Cell(b, nr, nc) = 0 - player
                      THEN MakeScan(b, player, nr, nc, directions[i][1], directions[i][2], <<>>)
                      ELSE <<>>
         IN  MakeDirs(FlipAll(b, flips, 1, player), row, col, player, i + 1)

\* make_move flipping the captured discs without placing the new one.
make_move_unplaced(b, row, col, player) == MakeDirs(b, row, col, player, 1)

\* make_move placing the disc and flipping nothing.
make_move_no_flips(b, row, col, player) == SetCell(b, row, col, player)

make_move(b, row, col, player) == MakeDirs(SetCell(b, row, col, player), row, col, player, 1)

-----------------------------------------------------------------------------
(* OthelloAI.apply_move and undo_move *)

\* The inner while loop of apply_move: what one direction adds to flip_positions.
RECURSIVE ApplyScan(_, _, _, _, _, _, _)
ApplyScan(b, player, nr, nc, dr, dc, temp) ==
    IF ~InBoard(nr, nc) THEN <<>>
    ELSE IF Cell(b, nr, nc) = 0 THEN <<>>
    ELSE IF Cell(b, nr, nc) = player THEN temp
    ELSE ApplyScan(b, player, nr + dr, nc + dc, dr, dc, Append(temp, <<nr, nc>>))

RECURSIVE ApplyDirs(_, _, _, _, _)
ApplyDirs(b, row, col, player, i) ==
    IF i > Len(directions) THEN <<>>
    ELSE LET nr == row + directions[i][1]
             nc == col + directions[i][2]
         IN  (IF InBoard(nr, nc) /\ Cell(b, nr, nc) = 0 - player
              THEN ApplyScan(b, player, nr, nc, directions[i][1], directions[i][2], <<>>)
              ELSE <<>>)
             \o ApplyDirs(b, row, col, player, i + 1)

\* apply_move looking only in the last four of the eight directions.
apply_move_four_directions(b, move, player) ==
    LET placed == SetCell(b, move[1], move[2], player)
    IN  [board |-> placed, flips |-> ApplyDirs(placed, move[1], move[2], player, 5)]

\* The board apply_move leaves and the list it returns: the move cell is written,
\* the cells of the list are collected and not written.
apply_move(b, move, player) ==
    LET placed == SetCell(b, move[1], move[2], player)
    IN  [board |-> placed, flips |-> ApplyDirs(placed, move[1], move[2], player, 1)]

\* undo_move writing the mover's own colour back into the listed cells.
undo_move_same_player(b, move, player, flips) ==
    FlipAll(SetCell(b, move[1], move[2], 0), flips, 1, player)

\* undo_move that does not empty the move cell.
undo_move_no_clear(b, move, player, flips) ==
    FlipAll(b, flips, 1, 0 - player)

undo_move(b, move, player, flips) ==
    FlipAll(SetCell(b, move[1], move[2], 0), flips, 1, 0 - player)

-----------------------------------------------------------------------------
(* OthelloAI.evaluate_board *)

Count(b, v) == Cardinality({p \in Pos : Cell(b, p[1], p[2]) = v})

RECURSIVE SumCells(_, _, _)
SumCells(b, cells, i) ==
    IF i > Len(cells) THEN 0
    ELSE Cell(b, cells[i][1], cells[i][2]) + SumCells(b, cells, i + 1)

corners == << <<0, 0>>, <<0, 7>>, <<7, 0>>, <<7, 7>> >>

edges ==
    [k \in 1 .. 12 |-> <<(IF k <= 6 THEN 0 ELSE 7), ((k - 1) % 6) + 1>>]
    \o [k \in 1 .. 12 |-> <<((k - 1) \div 2) + 1, (IF k % 2 = 1 THEN 0 ELSE 7)>>]

\* Coin parity counted for player +1 whoever is to move.
coin_parity_raw(b, cp) == Count(b, 1) - Count(b, 0 - 1)

coin_parity(b, cp) == Count(b, cp) - Count(b, 0 - cp)

mobility(b, cp, ord) == Len(valid_moves(b, cp, ord)) - Len(valid_moves(b, 0 - cp, ord))

corner_occupancy(b) == SumCells(b, corners, 1)

edge_occupancy(b) == SumCells(b, edges, 1)

\* Twice the source's score: 1, 2, 5 and 2.5 become 2, 4, 10 and 5.
evaluate_board(b, cp, ord) ==
    2 * coin_parity(b, cp) + 4 * mobility(b, cp, ord)
    + 10 * corner_occupancy(b) + 5 * edge_occupancy(b)

-----------------------------------------------------------------------------
(* OthelloAI.minimax.  A call is given the board and current_player it runs *)
(* on and yields the value it returns and the board it leaves behind, and,  *)
(* as a record of what it did: persp, the current_player values its         *)
(* evaluate_board calls read; cuts, the breaks taken; passes, the nodes     *)
(* that ended the recursion above depth 0 for want of a move; mover, the    *)
(* player the call placed discs for (0 when it placed none); repeats, the   *)
(* number of times a node of its tree placed discs for the same player as   *)
(* the node above it; stack, the apply_move calls it has left open; lifo,   *)
(* whether every undo_move was given the move, the player and the list of   *)
(* the latest apply_move still open; maxOpen, the most apply_move calls     *)
(* that were open at once.                                                  *)

\* The cut-off test with its operands swapped.
CutOff_swapped(alpha, beta) == alpha <= beta

\* if beta <= alpha: break
CutOff(alpha, beta) == beta <= alpha

\* The minimizing branch handing undo_move current_player where apply_move was
\* given -current_player.
MinUndoPlayer_unnegated(cp) == cp

\* The player the minimizing branch hands undo_move: -self.game.current_player.
MinUndoPlayer(cp) == 0 - cp

RECURSIVE minimax(_, _, _, _, _, _, _), MaxLoop(_, _, _, _, _, _, _, _, _), MinLoop(_, _, _, _, _, _, _, _, _)
minimax(b, cp, d, maximizing_player, alpha, beta, ord) ==
    LET moves == valid_moves(b, IF maximizing_player THEN cp ELSE 0 - cp, ord)
        none == [val |-> 0, board |-> b, persp |-> {}, cuts |-> 0, passes |-> 0,
                 mover |-> IF maximizing_player THEN cp ELSE 0 - cp, repeats |-> 0,
                 stack |-> <<>>, lifo |-> TRUE, maxOpen |-> 0]
    IN  IF d = 0 \/ moves = <<>>
        THEN [val |-> evaluate_board(b, cp, ord), board |-> b, persp |-> {cp},
              cuts |-> 0, passes |-> IF d = 0 THEN 0 ELSE 1, mover |-> 0, repeats |-> 0,
              stack |-> <<>>, lifo |-> TRUE, maxOpen |-> 0]
        ELSE IF maximizing_player
             THEN MaxLoop(b, cp, d, moves, 1, alpha, beta, [none EXCEPT !.val = NegInf], ord)
             ELSE MinLoop(b, cp, d, moves, 1, alpha, beta, [none EXCEPT !.val = Inf], ord)

\* The arguments and the result of an apply_move call, or the arguments of an
\* undo_move call.
Call(move, player, flips) == [move |-> move, player |-> player, flips |-> flips]

\* What a loop has done once its i-th child r has returned and been undone to b2:
\* applied is the apply_move call made before the child ran, undone the undo_move
\* call made after it.
Absorb(acc, r, b2, v, cut, applied, undone) ==
    LET open == (acc.stack \o <<applied>>) \o r.stack
        matches == open[Len(open)] = undone
    IN  [val |-> v, board |-> b2, persp |-> acc.persp \cup r.persp,
         cuts |-> acc.cuts + r.cuts + (IF cut THEN 1 ELSE 0), passes |-> acc.passes + r.passes,
         mover |-> acc.mover,
         repeats |-> acc.repeats + r.repeats + (IF r.mover = acc.mover THEN 1 ELSE 0),
         stack |-> IF matches THEN SubSeq(open, 1, Len(open) - 1) ELSE open,
         lifo |-> acc.lifo /\ r.lifo /\ matches,
         maxOpen |-> Max(acc.maxOpen, Len(acc.stack) + 1 + r.maxOpen)]

\* The for loop of the maximizing branch, from the i-th move on; acc.val is max_eval.
MaxLoop(b, cp, d, moves, i, alpha, beta, acc, ord) ==
    IF i > Len(moves) THEN [acc EXCEPT !.board = b]
    ELSE LET ap == apply_move(b, moves[i], cp)
             r == minimax(ap.board, cp, d - 1, FALSE, alpha, beta, ord)
             b2 == undo_move(r.board, moves[i], cp, ap.flips)
             max_eval == Max(acc.val, r.val)
             a2 == Max(alpha, r.val)
             applied == Call(moves[i], cp, ap.flips)
             undone == Call(moves[i], cp, ap.flips)
         IN  IF CutOff(a2, beta)
             THEN Absorb(acc, r, b2, max_eval, TRUE, applied, undone)
             ELSE MaxLoop(b2, cp, d, moves, i + 1, a2, beta,
                          Absorb(acc, r, b2, max_eval, FALSE, applied, undone), ord)

\* The for loop of the minimizing branch, from the i-th move on; acc.val is min_eval.
MinLoop(b, cp, d, moves, i, alpha, beta, acc, ord) ==
    IF i > Len(moves) THEN [acc EXCEPT !.board = b]
    ELSE LET ap == apply_move(b, moves[i], 0 - cp)
             r == minimax(ap.board, cp, d - 1, TRUE, alpha, beta, ord)
             b2 == undo_move(r.board, moves[i], MinUndoPlayer(cp), ap.flips)
             min_eval == Min(acc.val, r.val)
             b3 == Min(beta, r.val)
             applied == Call(moves[i], 0 - cp, ap.flips)
             undone == Call(moves[i], MinUndoPlayer(cp), ap.flips)
         IN  IF CutOff(alpha, b3)
             THEN Absorb(acc, r, b2, min_eval, TRUE, applied, undone)
             ELSE MinLoop(b2, cp, d, moves, i + 1, alpha, b3,
                          Absorb(acc, r, b2, min_eval, FALSE, applied, undone), ord)

-----------------------------------------------------------------------------
(* OthelloAI.best_move: the move it returns, the board and current_player it *)
(* leaves behind, and the record of its minimax calls.                       *)

\* The root scan giving up after its first move, as if a deadline were looked at
\* between sibling moves and found passed.
ScanDone_after_first(moves, i) == i > 1

\* for move in valid_moves: the scan ends when the list is exhausted and not before.
ScanDone(moves, i) == i > Len(moves)

\* The comparison of best_move also taking a move that only equals the best.
Better_or_equal(eval, best_eval) == eval >= best_eval

\* if eval > best_eval
Better(eval, best_eval) == eval > best_eval

\* The for loop of best_move, from the i-th root move on; scanned is the number
\* of root moves the loop has evaluated.
RECURSIVE BestLoop(_, _, _, _, _, _, _, _, _)
BestLoop(b, cp, d, moves, i, best_eval, best, acc, ord) ==
    IF ScanDone(moves, i)
    THEN [move |-> best, val |-> best_eval, board |-> b, current_player |-> cp,
          persp |-> acc.persp, cuts |-> acc.cuts, passes |-> acc.passes, scanned |-> i - 1,
          repeats |-> acc.repeats, stack |-> acc.stack, lifo |-> acc.lifo,
          maxOpen |-> acc.maxOpen]
    ELSE LET ap == apply_move(b, moves[i], cp)
             cp1 == switch_player(cp)
             r == minimax(ap.board, cp1, d - 1, FALSE, NegInf, Inf, ord)
             cp2 == switch_player(cp1)
             b2 == undo_move(r.board, moves[i], cp2, ap.flips)
             acc2 == Absorb(acc, r, b2, 0, FALSE,
                            Call(moves[i], cp, ap.flips), Call(moves[i], cp2, ap.flips))
         IN  IF Better(r.val, best_eval)
             THEN BestLoop(b2, cp2, d, moves, i + 1, r.val, moves[i], acc2, ord)
             ELSE BestLoop(b2, cp2, d, moves, i + 1, best_eval, best, acc2, ord)

\* best_move with best_eval started at +infinity.
BestMove_inf_start(b, cp, d, ord) ==
    BestLoop(b, cp, d, valid_moves(b, cp, ord), 1, Inf, None,
             [val |-> 0, board |-> b, persp |-> {}, cuts |-> 0, passes |-> 0,
              mover |-> cp, repeats |-> 0, stack |-> <<>>, lifo |-> TRUE, maxOpen |-> 0], ord)

BestMove(b, cp, d, ord) ==
    BestLoop(b, cp, d, valid_moves(b, cp, ord), 1, NegInf, None,
             [val |-> 0, board |-> b, persp |-> {}, cuts |-> 0, passes |-> 0,
              mover |-> cp, repeats |-> 0, stack |-> <<>>, lifo |-> TRUE, maxOpen |-> 0], ord)

-----------------------------------------------------------------------------
(* play_othello *)

time_limit == 4
initial_depth == 1
DepthEnd == 100

\* What time.time() - start_time may read, in seconds.
ElapsedTimes == {0, time_limit, time_limit + 1}

Discs(b) == Count(b, 1) + Count(b, 0 - 1)

NoResult ==
    [call |-> "none", d |-> 0, maximizing_player |-> FALSE, alpha |-> 0, beta |-> 0,
     player |-> 0, turn |-> 0, val |-> 0, move |-> None, moves |-> <<>>, persp |-> {}, cuts |-> 0,
     passes |-> 0, scanned |-> 0, repeats |-> 0, open |-> 0, lifo |-> TRUE, maxOpen |-> 0]

Init ==
    /\ board = InitBoard
    /\ current_player = 1
    /\ pc = "loop"
    /\ depth = 0
    /\ best_move = None
    /\ setOrder \in SetOrders
    /\ pre = InitBoard
    /\ mv = None
    /\ pl = 0
    /\ flip_positions = <<>>
    /\ result = NoResult

probeVars == <<pre, mv, pl, flip_positions, result>>

\* The end of one pass of the while loop on board b: switch_player, then the
\* game-over test on the player now to move.
EndOfTurn(b) ==
    /\ board' = b
    /\ current_player' = switch_player(current_player)
    /\ pc' = IF has_valid_move(b, switch_player(current_player), setOrder) THEN "loop" ELSE "over"

\* The top of the while loop: the branch on has_valid_move and on whose turn it is.
\* The game is followed while fewer than maxDiscs discs are on the board.
LoopTopUpTo(maxDiscs) ==
    /\ pc = "loop"
    /\ Discs(board) < maxDiscs
    /\ IF has_valid_move(board, current_player, setOrder)
       THEN IF current_player = 1
            THEN /\ pc' = "input"
                 /\ UNCHANGED <<board, current_player, depth, best_move>>
            ELSE /\ pc' = "deepen"
                 /\ best_move' = None
                 /\ depth' = initial_depth
                 /\ UNCHANGED <<board, current_player>>
       ELSE /\ EndOfTurn(board)
            /\ UNCHANGED <<depth, best_move>>
    /\ result' = [NoResult EXCEPT !.call = "has_valid_move", !.turn = current_player]
    /\ UNCHANGED <<setOrder, pre, mv, pl, flip_positions>>

LoopTop == LoopTopUpTo(MaxDiscs)

\* What the human may type: two integers.
Inputs == (0 .. N) \X (0 .. N)

\* The input test with the legality test replaced by a test that the cell is on
\* the board.
InputAccepted_on_board(input, legal) == InBoard(input[1], input[2])

\* if (row, col) in game.valid_moves(game.current_player)
InputAccepted(input, legal) == input \in legal

\* The human branch once the input is read, the input being one of typed.
HumanMoveFrom(typed) ==
    /\ pc = "input"
    /\ \E legal \in {Range(valid_moves(board, current_player, setOrder))} :
           \E input \in typed :
               IF InputAccepted(input, legal)
               THEN /\ EndOfTurn(make_move(board, input[1], input[2], current_player))
                    /\ result' = [NoResult EXCEPT !.call = "accepted", !.move = input,
                                                  !.turn = current_player]
               ELSE /\ pc' = "loop"
                    /\ result' = [NoResult EXCEPT !.call = "rejected", !.move = input,
                                                  !.turn = current_player]
                    /\ UNCHANGED <<board, current_player>>
    /\ UNCHANGED <<depth, best_move, setOrder, pre, mv, pl, flip_positions>>

HumanMove == HumanMoveFrom(Inputs)

\* The loop keeping the first move it was given instead of the latest.
KeepMove_first(old, move) == IF old # None THEN old ELSE move

\* if move: best_move = move
KeepMove(old, move) == IF move # None THEN move ELSE old

\* One pass of the for loop whose deadline test finds time left: best_move(depth).
Deepen ==
    /\ pc = "deepen"
    /\ depth < DepthEnd
    /\ depth <= MaxDepth
    /\ (\E elapsed_time \in ElapsedTimes : ~(elapsed_time > time_limit)) = TRUE  \* a guard
    /\ \E r \in {BestMove(board, current_player, depth, setOrder)} :
           /\ board' = r.board
           /\ current_player' = r.current_player
           /\ best_move' = KeepMove(best_move, r.move)
           /\ result' = [NoResult EXCEPT !.call = "best_move", !.d = depth,
                                         !.turn = current_player, !.val = r.val,
                                         !.move = r.move, !.persp = r.persp,
                                         !.cuts = r.cuts, !.passes = r.passes,
                                         !.scanned = r.scanned, !.repeats = r.repeats,
                                             !.open = Len(r.stack), !.lifo = r.lifo,
                                             !.maxOpen = r.maxOpen]
    /\ depth' = depth + 1
    /\ UNCHANGED <<pc, setOrder, pre, mv, pl, flip_positions>>

\* The for loop ends: the deadline test finds the budget spent, or the range is
\* exhausted.
LoopExit ==
    /\ pc = "deepen"
    /\ \/ depth >= DepthEnd
       \/ \E elapsed_time \in ElapsedTimes : elapsed_time > time_limit
    /\ pc' = "chosen"
    /\ UNCHANGED <<board, current_player, depth, best_move, setOrder, probeVars>>

\* The AI branch plays what the loop left in best_move.
AIPlay ==
    /\ pc = "chosen"
    /\ IF best_move # None
       THEN EndOfTurn(make_move(board, best_move[1], best_move[2], current_player))
       ELSE EndOfTurn(board)
    /\ UNCHANGED <<depth, best_move, setOrder, probeVars>>

Next ==
    \/ LoopTop
    \/ HumanMove
    \/ Deepen
    \/ LoopExit
    \/ AIPlay

Spec == Init /\ [][Next]_vars

\* The program does not stop where it can go on, and a human who is prompted
\* again and again eventually types a legal move.  Each condition is weak or
\* strong fairness written out, with the enabling condition of the action stated
\* on pc: ProgramGoesOn is weak fairness of LoopTop and of AIPlay, SearchEnds is
\* weak fairness of LoopExit (the clock passes the deadline, or the range is
\* exhausted), HumanAccepts is strong fairness of the accepting branch of
\* HumanMove, which is enabled whenever the human is prompted.
ProgramGoesOn ==
    /\ []<>(~(pc = "loop" /\ Discs(board) < MaxDiscs)) \/ []<><<pc = "loop">>_vars
    /\ []<>(pc # "chosen") \/ []<><<pc = "chosen">>_vars

SearchEnds == WF_vars(LoopExit)

HumanAccepts ==
    <>[](pc # "input") \/ []<><<pc = "input" /\ result'.call = "accepted">>_vars

FairSpec == Spec /\ ProgramGoesOn /\ SearchEnds /\ HumanAccepts

-----------------------------------------------------------------------------
(* The same game followed further, with a human who only ever types cells of *)
(* a short list: the cells of two lines of play, one for each order of       *)
(* list(set(...)), that lead to a position in which one player is blocked.   *)

ScriptInputs ==
    {<<2, 4>>, <<1, 2>>, <<2, 2>>, <<0, 2>>, <<0, 4>>, <<4, 2>>,
     <<5, 3>>, <<6, 5>>, <<5, 5>>, <<7, 5>>, <<7, 3>>, <<3, 5>>}

ScriptLoopTop == LoopTopUpTo(ScriptDiscs)

ScriptHumanMove == HumanMoveFrom(ScriptInputs)

ScriptNext ==
    \/ ScriptLoopTop
    \/ ScriptHumanMove
    \/ Deepen
    \/ LoopExit
    \/ AIPlay

ScriptSpec == Init /\ [][ScriptNext]_vars

-----------------------------------------------------------------------------
(* The board operations on their own, on boards that reach the edges and a *)
(* corner (every filling of the first cells of ProbeCells) and on the      *)
(* openings (the boards a few legal moves away from the initial board).    *)

ProbeCells ==
    << <<0, 0>>, <<0, 1>>, <<0, 2>>, <<1, 0>>, <<2, 0>>, <<1, 1>>, <<2, 2>>, <<0, 3>>, <<3, 0>>, <<3, 3>> >>

ProbeBoard(f) ==
    [r \in 1 .. N |-> [c \in 1 .. N |->
        IF \E k \in DOMAIN f : ProbeCells[k] = <<r - 1, c - 1>>
        THEN f[CHOOSE k \in DOMAIN f : ProbeCells[k] = <<r - 1, c - 1>>]
        ELSE 0]]

Fillings(n) == {ProbeBoard(f) : f \in [1 .. n -> {0 - 1, 0, 1}]}

\* The boards k moves into a game in which player p made the last move.
RECURSIVE After(_, _)
After(k, p) ==
    IF k = 0 THEN {InitBoard}
    ELSE {make_move(b, m[1], m[2], p) :
            <<b, m>> \in UNION {{<<b0, m0>> : m0 \in HitCells(b0, p)} : b0 \in After(k - 1, 0 - p)}}

Openings == UNION {After(k, IF k % 2 = 1 THEN 1 ELSE 0 - 1) : k \in 0 .. OpeningPlies}

BoardProbes == Fillings(ProbeCellCount) \cup Openings

\* The moves tried on a probe board: the legal ones and the empty probe cells.
ProbeMoves(b, p) ==
    {m \in HitCells(b, p) \cup Range(ProbeCells) : Cell(b, m[1], m[2]) = 0}

BoardInit ==
    /\ board \in BoardProbes
    /\ current_player \in Players
    /\ pc = "probe"
    /\ depth = 0
    /\ best_move = None
    /\ setOrder = "ascending"
    /\ pre = board
    /\ mv = None
    /\ pl = 0
    /\ flip_positions = <<>>
    /\ result = NoResult

ProbeValidMoves ==
    /\ pc = "probe"
    /\ \E p \in Players : \E ord \in SetOrders :
           result' = [NoResult EXCEPT !.call = "valid_moves", !.player = p,
                                      !.turn = current_player,
                                      !.moves = valid_moves(board, p, ord)]
    /\ pc' = "listed"
    /\ UNCHANGED <<board, current_player, depth, best_move, setOrder, pre, mv, pl, flip_positions>>

ProbeApply ==
    /\ pc = "probe"
    /\ \E p \in Players : \E m \in ProbeMoves(board, p) :
           /\ \E r \in {apply_move(board, m, p)} :
                  /\ board' = r.board
                  /\ flip_positions' = r.flips
           /\ mv' = m
           /\ pl' = p
    /\ pre' = board
    /\ result' = [NoResult EXCEPT !.call = "apply_move", !.turn = current_player]
    /\ pc' = "applied"
    /\ UNCHANGED <<current_player, depth, best_move, setOrder>>

ProbeUndo ==
    /\ pc = "applied"
    /\ board' = undo_move(board, mv, pl, flip_positions)
    /\ pc' = "undone"
    /\ UNCHANGED <<current_player, depth, best_move, setOrder, pre, mv, pl, flip_positions, result>>

ProbeMake ==
    /\ pc = "probe"
    /\ \E p \in Players : \E m \in ProbeMoves(board, p) :
           /\ board' = make_move(board, m[1], m[2], p)
           /\ mv' = m
           /\ pl' = p
    /\ pre' = board
    /\ pc' = "made"
    /\ UNCHANGED <<current_player, depth, best_move, setOrder, flip_positions, result>>

ProbeEvaluate ==
    /\ pc = "probe"
    /\ result' = [NoResult EXCEPT !.call = "evaluate_board", !.turn = current_player,
                                  !.val = evaluate_board(board, current_player, setOrder)]
    /\ pc' = "evaluated"
    /\ UNCHANGED <<board, current_player, depth, best_move, setOrder, pre, mv, pl, flip_positions>>

BoardNext ==
    \/ ProbeValidMoves
    \/ ProbeApply
    \/ ProbeUndo
    \/ ProbeMake
    \/ ProbeEvaluate

BoardSpec == BoardInit /\ [][BoardNext]_vars

-----------------------------------------------------------------------------
(* The search on its own: minimax and best_move called on the openings and *)
(* on corner boards, for either player to move.                            *)

SearchProbes == Fillings(SearchCellCount) \cup Openings

\* The (alpha, beta) windows minimax is probed with: the default one, one that
\* cuts at once, and a half-open one.
Windows == {<<NegInf, Inf>>, <<0, 0>>, <<0, Inf>>}

SearchInit ==
    /\ board \in SearchProbes
    /\ current_player \in Players
    /\ pc = "probe"
    /\ depth = 0
    /\ best_move = None
    /\ setOrder \in SetOrders
    /\ pre = board
    /\ mv = None
    /\ pl = 0
    /\ flip_positions = <<>>
    /\ result = NoResult

ProbeMinimax ==
    /\ pc = "probe"
    /\ \E d \in 0 .. SearchDepth : \E maximizing_player \in BOOLEAN : \E w \in Windows :
           \E r \in {minimax(board, current_player, d, maximizing_player, w[1], w[2], setOrder)} :
               /\ board' = r.board
               /\ result' = [NoResult EXCEPT !.call = "minimax", !.d = d,
                                             !.maximizing_player = maximizing_player,
                                             !.alpha = w[1], !.beta = w[2],
                                             !.turn = current_player, !.val = r.val,
                                             !.persp = r.persp, !.cuts = r.cuts,
                                             !.passes = r.passes, !.repeats = r.repeats,
                                             !.open = Len(r.stack), !.lifo = r.lifo,
                                             !.maxOpen = r.maxOpen]
    /\ pc' = "searched"
    /\ UNCHANGED <<current_player, depth, best_move, setOrder, pre, mv, pl, flip_positions>>

ProbeBestMove ==
    /\ pc = "probe"
    /\ \E d \in 1 .. SearchDepth :
           \E r \in {BestMove(board, current_player, d, setOrder)} :
               /\ board' = r.board
               /\ current_player' = r.current_player
               /\ result' = [NoResult EXCEPT !.call = "best_move", !.d = d,
                                             !.turn = current_player, !.val = r.val,
                                             !.move = r.move, !.persp = r.persp,
                                             !.cuts = r.cuts, !.passes = r.passes,
                                             !.scanned = r.scanned, !.repeats = r.repeats,
                                             !.open = Len(r.stack), !.lifo = r.lifo,
                                             !.maxOpen = r.maxOpen]
    /\ pc' = "searched"
    /\ UNCHANGED <<depth, best_move, setOrder, pre, mv, pl, flip_positions>>

SearchNext ==
    \/ ProbeMinimax
    \/ ProbeBestMove

SearchSpec == SearchInit /\ [][SearchNext]_vars

-----------------------------------------------------------------------------
(* Properties *)

Legal(b, p, m) == m \in Range(valid_moves(b, p, "ascending"))

\* C1 (BoardSpec): apply_move on a legal move followed at once by undo_move with
\* the list apply_move returned leaves all 64 cells and current_player as they
\* were before apply_move.
C1_ApplyUndoRestores ==
    (pc = "undone" /\ Legal(pre, pl, mv)) => (board = pre /\ current_player = result.turn)

C1_Witness ==
    /\ pc = "undone"
    /\ Legal(pre, pl, mv)
    /\ Len(flip_positions) >= 2
    /\ board = pre

\* C2 (SearchSpec): when minimax or best_move returns, every cell of the board and
\* current_player are what they were at the call, whatever the depth, the window
\* and the turn, cut-offs and passes included.
C2_SearchRestoresState ==
    pc = "searched" => (board = pre /\ current_player = result.turn)

C2_Witness ==
    /\ pc = "searched"
    /\ result.d >= 2
    /\ result.cuts > 0
    /\ result.passes > 0
    /\ board = pre

\* The unpruned search over the same tree: the same terminal rule, the same
\* movers and the same evaluation as minimax, every child visited.
RECURSIVE Exhaustive(_, _, _, _, _)
Exhaustive(b, cp, d, maximizing_player, ord) ==
    LET mover == IF maximizing_player THEN cp ELSE 0 - cp
        moves == Range(valid_moves(b, mover, ord))
        vals == {Exhaustive(apply_move(b, m, mover).board, cp, d - 1, ~maximizing_player, ord) :
                   m \in moves}
    IN  IF d = 0 \/ moves = {} THEN evaluate_board(b, cp, ord)
        ELSE IF maximizing_player
             THEN CHOOSE v \in vals : \A w \in vals : v >= w
             ELSE CHOOSE v \in vals : \A w \in vals : v <= w

\* C3 (SearchSpec): called with the full window, minimax returns the score of the
\* unpruned search of the same tree, for either value of maximizing_player.
C3_AlphaBetaEquivalence ==
    (pc = "searched" /\ result.call = "minimax" /\ result.alpha = NegInf /\ result.beta = Inf)
        => result.val = Exhaustive(pre, result.turn, result.d, result.maximizing_player, setOrder)

C3_Witness ==
    /\ pc = "searched"
    /\ result.call = "minimax"
    /\ result.alpha = NegInf
    /\ result.beta = Inf
    /\ result.maximizing_player
    /\ result.cuts > 1
    /\ result.val = Exhaustive(pre, result.turn, result.d, TRUE, setOrder)

\* C4 as claimed (Spec): on the board built by Othello.__init__ with player +1 to
\* move, valid_moves(+1) is exactly {(2,3), (3,2), (4,5), (5,4)}.
C4_Claimed ==
    (board = InitBoard /\ current_player = 1)
        => Range(valid_moves(board, 1, setOrder)) = {<<2, 3>>, <<3, 2>>, <<4, 5>>, <<5, 4>>}

\* C4 as amended (Spec): on the board built by Othello.__init__ with player +1 to
\* move, valid_moves(+1) is exactly {(2,4), (3,5), (4,2), (5,3)}, each once.
C4_InitialMoves ==
    (board = InitBoard /\ current_player = 1)
        => /\ Range(valid_moves(board, 1, setOrder)) = {<<2, 4>>, <<3, 5>>, <<4, 2>>, <<5, 3>>}
           /\ Len(valid_moves(board, 1, setOrder)) = 4

C4_Witness ==
    /\ board = InitBoard
    /\ current_player = 1
    /\ pc = "input"

\* Direction d from cell m captures for p: one or more discs of -p in a row, then
\* a disc of p, all on the board.
Capturing(b, p, m, d) ==
    \E k \in 1 .. (N - 2) :
        /\ \A j \in 1 .. k :
               /\ InBoard(m[1] + j * d[1], m[2] + j * d[2])
               /\ Cell(b, m[1] + j * d[1], m[2] + j * d[2]) = 0 - p
        /\ InBoard(m[1] + (k + 1) * d[1], m[2] + (k + 1) * d[2])
        /\ Cell(b, m[1] + (k + 1) * d[1], m[2] + (k + 1) * d[2]) = p

Qualifies(b, p, m) ==
    /\ Cell(b, m[1], m[2]) = 0
    /\ \E d \in Range(directions) : Capturing(b, p, m, d)

\* C5 (BoardSpec): valid_moves(p) lists a cell exactly when it is empty and some
\* direction from it captures; it lists no occupied cell, lists each cell once,
\* is empty when no cell qualifies, and leaves board and current_player alone.
C5_ValidMovesExact ==
    pc = "listed" =>
        /\ \A m \in Pos : (m \in Range(result.moves)) <=> Qualifies(pre, result.player, m)
        /\ Range(result.moves) \subseteq Pos
        /\ \A i \in 1 .. Len(result.moves) : Cell(pre, result.moves[i][1], result.moves[i][2]) = 0
        /\ Len(result.moves) = Cardinality(Range(result.moves))
        /\ board = pre
        /\ current_player = result.turn

C5_Witness ==
    /\ pc = "listed"
    /\ \E m \in Range(result.moves) :
           Cardinality({d \in Range(directions) : Capturing(pre, result.player, m, d)}) >= 2
    /\ \A m \in Range(result.moves) : Qualifies(pre, result.player, m)

\* C6 as claimed (BoardSpec): right after apply_move on a legal move, the move cell
\* and every cell of the returned list belong to the mover, and no other cell has
\* changed.
C6_Claimed ==
    (pc = "applied" /\ Legal(pre, pl, mv)) =>
        /\ Cell(board, mv[1], mv[2]) = pl
        /\ \A i \in 1 .. Len(flip_positions) :
               Cell(board, flip_positions[i][1], flip_positions[i][2]) = pl
        /\ \A m \in Pos : (m # mv /\ m \notin Range(flip_positions))
               => Cell(board, m[1], m[2]) = Cell(pre, m[1], m[2])

\* C7 as claimed (BoardSpec): apply_move on a legal move raises the number of the
\* mover's cells by at least 2.
C7_Claimed ==
    (pc = "applied" /\ Legal(pre, pl, mv)) => Count(board, pl) >= Count(pre, pl) + 2

\* C8 as claimed (SearchSpec): every evaluate_board call of a search started by
\* best_move reads the player whose turn it was when best_move was called.
C8_Claimed ==
    (pc = "searched" /\ result.call = "best_move") => result.persp \subseteq {result.turn}

\* C9 (Spec): when the deadline never cut the loop short before depth D, the move
\* the iterative-deepening loop ends with is the move best_move(D) returns on the
\* same board and turn.
C9_DeepeningMatchesDirect ==
    (pc = "chosen" /\ depth > initial_depth)
        => best_move = BestMove(board, current_player, depth - 1, setOrder).move

C9_Witness ==
    /\ pc = "chosen"
    /\ depth > initial_depth + 1
    /\ best_move = BestMove(board, current_player, depth - 1, setOrder).move
    /\ best_move # BestMove(board, current_player, initial_depth, setOrder).move

\* C10 as claimed (Spec): best_move(depth) returns None only if the player to move
\* has no legal move, and the iterative-deepening loop ends with best_move = None
\* only if the player to move has no legal move.
C10_Claimed ==
    (pc = "chosen" /\ best_move = None) => ~has_valid_move(board, current_player, setOrder)

\* C10 as amended (Spec): best_move(depth) returns None only if the player to move
\* has no legal move (once a depth has been run, the loop holds None only then),
\* and the iterative-deepening loop ends with best_move = None only if the player
\* to move has no legal move or the deadline test ended the loop before best_move
\* was called at all.
C10_NoneOnlyWithoutMoveOrTime ==
    (pc \in {"deepen", "chosen"} /\ best_move = None)
        => (~has_valid_move(board, current_player, setOrder) \/ depth = initial_depth)

C10_Witness ==
    /\ pc = "chosen"
    /\ best_move = None
    /\ depth = initial_depth
    /\ has_valid_move(board, current_player, setOrder)

\* C11 as claimed (ScriptSpec): when play_othello reaches 'Game over', neither
\* player has a legal move; a position in which only the player now to move has
\* none makes that player pass and the game goes on.
C11_Claimed ==
    pc = "over" => /\ ~has_valid_move(board, 1, setOrder)
                   /\ ~has_valid_move(board, 0 - 1, setOrder)

\* C12 (Spec): the deadline is looked at only between depths.  A depth that is
\* started evaluates every legal root move before the next deadline test, so the
\* depths run are exactly initial_depth .. depth - 1, each scanned in full; and
\* once a test has found the budget spent no further depth is started: the loop
\* is left with depth and best_move as they are.
C12_DeadlineBetweenDepths ==
    [][/\ (pc = "deepen" /\ depth' # depth)
           => /\ depth' = depth + 1
              /\ result'.call = "best_move"
              /\ result'.d = depth
              /\ result'.scanned = Len(valid_moves(board, current_player, setOrder))
       /\ (pc = "deepen" /\ pc' = "chosen")
           => /\ depth' = depth
              /\ best_move' = best_move
              /\ result' = result
       /\ pc = "chosen" => (pc' # "deepen" /\ depth' = depth /\ best_move' = best_move)]_vars

C12_Witness ==
    /\ pc = "chosen"
    /\ depth = initial_depth + 2
    /\ result.call = "best_move"
    /\ result.d = initial_depth + 1
    /\ result.scanned >= 3
    /\ result.scanned = Len(valid_moves(board, current_player, setOrder))

\* C13 (Spec): a human input that is not in valid_moves(current_player) is
\* rejected: board and current_player stay as they are, the turn is not switched
\* and the same player is prompted again; an input is handed to make_move, for
\* the player to move, exactly when it is in valid_moves(current_player).
C13_InvalidInputRejected ==
    [][/\ pc = "input"
           => /\ result'.call \in {"accepted", "rejected"}
              /\ result'.call = "accepted"
                     <=> result'.move \in Range(valid_moves(board, current_player, setOrder))
              /\ result'.call = "rejected"
                     => (board' = board /\ current_player' = current_player /\ pc' = "loop")
              /\ result'.call = "accepted"
                     => /\ board' = make_move(board, result'.move[1], result'.move[2], current_player)
                        /\ current_player' = 0 - current_player
       /\ (pc = "loop" /\ result.call = "rejected")
           => (pc' = "input" /\ board' = board /\ current_player' = current_player)]_vars

C13_Witness ==
    /\ pc = "loop"
    /\ result.call = "rejected"
    /\ result.turn = current_player
    /\ InBoard(result.move[1], result.move[2])
    /\ Cell(board, result.move[1], result.move[2]) = 0
    /\ result.move \notin Range(valid_moves(board, current_player, setOrder))
    /\ Discs(board) > 4

\* C14 as claimed (SearchSpec): along every path of the tree best_move searches,
\* no node places discs for the same player as the node above it; the node below
\* a root move places discs for the opponent of the root mover.
C14_Claimed ==
    (pc = "searched" /\ result.call = "best_move") => result.repeats = 0

\* C15 (SearchSpec): in a search the apply_move and undo_move calls are nested
\* last-in, first-out: every undo_move is given the move, the player and the list
\* of the latest apply_move not yet undone (so it comes before any sibling is
\* applied), never more apply_move calls are open than the depth the search was
\* called with, and none is open when minimax or best_move returns.
C15_ApplyUndoNested ==
    pc = "searched" => /\ result.lifo
                       /\ result.open = 0
                       /\ result.maxOpen <= result.d

C15_Witness ==
    /\ pc = "searched"
    /\ result.call = "best_move"
    /\ result.d = 3
    /\ result.maxOpen = 3
    /\ result.cuts > 0
    /\ result.lifo
    /\ result.open = 0

\* The score best_move gives root move m on board b with p to move: the move is
\* applied, the turn switched, and minimax(depth - 1, False) is run.
RootScore(b, p, m, d, ord) ==
    minimax(apply_move(b, m, p).board, switch_player(p), d - 1, FALSE, NegInf, Inf, ord).val

\* C16 (SearchSpec): best_move(depth) returns the first move of valid_moves, in
\* the order valid_moves lists them, whose score is at least the score of every
\* other root move (None when there is no move); the score of a move is the value
\* of minimax(depth - 1, False) after apply_move and switch_player, which at
\* depth 1 is evaluate_board on the board apply_move left.
C16_FirstArgmax ==
    (pc = "searched" /\ result.call = "best_move") =>
        \E moves \in {valid_moves(pre, result.turn, setOrder)} :
            \E scores \in {[i \in DOMAIN moves |->
                               RootScore(pre, result.turn, moves[i], result.d, setOrder)]} :
                /\ moves = <<>> => result.move = None
                /\ moves # <<>> =>
                       \E i \in DOMAIN moves :
                           /\ result.move = moves[i]
                           /\ result.val = scores[i]
                           /\ \A j \in DOMAIN moves : scores[i] >= scores[j]
                           /\ \A j \in 1 .. (i - 1) : scores[j] < scores[i]
                /\ result.d = 1 =>
                       \A i \in DOMAIN moves :
                           scores[i] = evaluate_board(apply_move(pre, moves[i], result.turn).board,
                                                      switch_player(result.turn), setOrder)

C16_Witness ==
    /\ pc = "searched"
    /\ result.call = "best_move"
    /\ result.d >= 2
    /\ \E moves \in {valid_moves(pre, result.turn, setOrder)} :
           \E scores \in {[i \in DOMAIN moves |->
                              RootScore(pre, result.turn, moves[i], result.d, setOrder)]} :
               \E i, j \in DOMAIN moves :
                   /\ i < j
                   /\ result.move = moves[i]
                   /\ scores[j] = scores[i]

\* C17 (BoardSpec): for a move on an empty cell, apply_move returns a non-empty
\* list exactly when the move is in valid_moves for that player, and every cell
\* of the list held a disc of the other player before the move.
C17_LegalIffCaptures ==
    pc = "applied" =>
        /\ Cell(pre, mv[1], mv[2]) = 0
        /\ (mv \in Range(valid_moves(pre, pl, setOrder))) <=> (flip_positions # <<>>)
        /\ \A i \in 1 .. Len(flip_positions) :
               Cell(pre, flip_positions[i][1], flip_positions[i][2]) = 0 - pl

C17_Witness ==
    /\ pc = "applied"
    /\ mv \in Range(valid_moves(pre, pl, setOrder))
    /\ Len(flip_positions) >= 2
    /\ \A i \in 1 .. Len(flip_positions) :
           Cell(pre, flip_positions[i][1], flip_positions[i][2]) = 0 - pl

\* The sum of the cell values of b over the set S of cells.
RECURSIVE RawSum(_, _)
RawSum(b, S) ==
    IF S = {} THEN 0
    ELSE LET m == CHOOSE x \in S : TRUE
         IN  Cell(b, m[1], m[2]) + RawSum(b, S \ {m})

CornerCells == {m \in Pos : m[1] \in {0, N - 1} /\ m[2] \in {0, N - 1}}

EdgeCells == {m \in Pos : m[1] \in {0, N - 1} \/ m[2] \in {0, N - 1}} \ CornerCells

\* C18 (BoardSpec): between evaluate_board with current_player = p and with
\* current_player = -p the coin-parity and mobility terms change sign and the
\* corner and edge terms, the sums of the cell values over the 4 corners and over
\* the 24 other edge cells, stay the same, so the two scores add up to twice the
\* weighted corner and edge terms (scores are kept doubled here); evaluate_board
\* leaves board and current_player alone.
C18_PerspectiveTerms ==
    pc = "evaluated" =>
        /\ coin_parity(pre, result.turn) = 0 - coin_parity(pre, 0 - result.turn)
        /\ mobility(pre, result.turn, setOrder) = 0 - mobility(pre, 0 - result.turn, setOrder)
        /\ corner_occupancy(pre) = RawSum(pre, CornerCells)
        /\ edge_occupancy(pre) = RawSum(pre, EdgeCells)
        /\ Cardinality(EdgeCells) = 24
        /\ result.val + evaluate_board(pre, 0 - result.turn, setOrder)
               = 2 * (10 * RawSum(pre, CornerCells) + 5 * RawSum(pre, EdgeCells))
        /\ board = pre
        /\ current_player = result.turn

C18_Witness ==
    /\ pc = "evaluated"
    /\ coin_parity(pre, result.turn) > 0
    /\ mobility(pre, result.turn, setOrder) # 0
    /\ RawSum(pre, CornerCells) # 0
    /\ RawSum(pre, EdgeCells) < 0
    /\ result.val + evaluate_board(pre, 0 - result.turn, setOrder)
           = 2 * (10 * RawSum(pre, CornerCells) + 5 * RawSum(pre, EdgeCells))

\* The cells other than m that differ between boards b and c and hold p in c.
ChangedTo(b, c, m, p) ==
    {x \in Pos : x # m /\ Cell(c, x[1], x[2]) # Cell(b, x[1], x[2]) /\ Cell(c, x[1], x[2]) = p}

\* C19 (BoardSpec): for a move on an empty cell, the cells other than the move
\* cell that make_move changes are exactly the cells of the list apply_move
\* returns for the same board, move and player, all of them changed to the
\* player, and both write the player into the move cell.
C19_MakeMatchesApply ==
    pc = "made" =>
        \E ap \in {apply_move(pre, mv, pl)} :
            /\ Cell(pre, mv[1], mv[2]) = 0
            /\ ChangedTo(pre, board, mv, pl) = Range(ap.flips)
            /\ \A x \in Pos \ ({mv} \cup Range(ap.flips)) : Cell(board, x[1], x[2]) = Cell(pre, x[1], x[2])
            /\ Cell(board, mv[1], mv[2]) = pl
            /\ Cell(ap.board, mv[1], mv[2]) = pl

C19_Witness ==
    /\ pc = "made"
    /\ Cardinality(ChangedTo(pre, board, mv, pl)) >= 2
    /\ ChangedTo(pre, board, mv, pl) = Range(apply_move(pre, mv, pl).flips)

\* C20 (FairSpec): in play_othello no cell ever returns to empty and the board
\* changes only when an accepted human move or the move the AI plays fills one
\* empty cell, so at most 60 moves are made; and, the human eventually typing a
\* legal move whenever prompted, from every number of discs the game goes on to
\* more discs or to 'Game over' (up to the number of discs the game is followed
\* to), so that the loop reaches 'Game over'.
C20_GameEnds ==
    /\ [][ /\ (\A x \in Pos : Cell(board, x[1], x[2]) # 0 => Cell(board', x[1], x[2]) # 0)
           /\ board' # board
                  => /\ Discs(board') = Discs(board) + 1
                     /\ \/ /\ pc = "input"
                           /\ result'.call = "accepted"
                           /\ Cell(board, result'.move[1], result'.move[2]) = 0
                           /\ Cell(board', result'.move[1], result'.move[2]) = current_player
                        \/ /\ pc = "chosen"
                           /\ best_move # None
                           /\ Cell(board, best_move[1], best_move[2]) = 0
                           /\ Cell(board', best_move[1], best_move[2]) = current_player
           /\ (pc = "input" /\ result'.call = "accepted") => board' # board
           /\ (pc = "chosen" /\ best_move # None) => board' # board]_vars
    /\ [](Discs(board) - Discs(InitBoard) <= 60)
    /\ \A k \in Discs(InitBoard) .. (MaxDiscs - 1) :
           (Discs(board) = k /\ pc # "over") ~> (Discs(board) > k \/ pc = "over")
    /\ <>(pc = "over" \/ Discs(board) >= MaxDiscs)

C20_Witness ==
    /\ pc = "over"
    /\ Discs(board) > Discs(InitBoard) + 1
    /\ ~has_valid_move(board, current_player, setOrder)

=============================================================================
